---- MODULE Spec2Model ----
(***************************************************************************)
(* Computational-graph core of chain/function.py: Function, Split and      *)
(* ParameterizedFunction, together with the Variable objects they link and *)
(* the backward traversal that replays the graph.                          *)
(*                                                                         *)
(* Python objects live in three heaps, each a sequence indexed by object   *)
(* identity: `variables` (Variable objects), `functions` (Function, Split  *)
(* and ParameterizedFunction objects) and `arrays` (raw values: data,      *)
(* gradients and parameters).  A reference is an index, None is 0, and an  *)
(* attribute that was never set is Unset.                                   *)
(***************************************************************************)
EXTENDS Integers, Sequences, FiniteSets, TLC

VARIABLES variables, functions, arrays, last, trav, count

vars == <<variables, functions, arrays, last, trav, count>>

----------------------------------------------------------------------------
(* Bounds of the exploration *)

\* Leaf variables the caller creates.
MaxLeaves == 2
\* Function objects the caller constructs.
MaxOps == 2
\* Invocations and forget() calls of one run.
MaxCalls == 2
MaxForgets == 2

----------------------------------------------------------------------------
(* Encoding of Python values *)

\* Python None as a reference.
None == 0
\* An attribute that does not exist on the object (hasattr is False).
Unset == 0 - 1
\* self.inputs / self.outputs holding None rather than a list.
NoneList == <<None>>
\* self.rank holding None.
NoRank == 0 - 1

Max(a, b) == IF a >= b THEN a ELSE b

\* The rank taken from the first input alone.
FirstOf(s) == s[1]

\* max(...) over a non-empty sequence.
RECURSIVE MaxOf(_)
MaxOf(s) == IF Len(s) = 1 THEN s[1] ELSE Max(s[1], MaxOf(Tail(s)))

Range(s) == {s[i] : i \in 1..Len(s)}

\* The three heaps as one value, threaded through the steps of a method.
Heap(v, f, a) == [v |-> v, f |-> f, a |-> a]

\* F applied to the value of e: one step of a method's sequential code,
\* whose later steps see the result of the earlier ones.
Bind(e, F(_)) == CHOOSE r \in {F(x) : x \in {e}} : TRUE

----------------------------------------------------------------------------
(* Variable (variable.py): the data node *)

\* Variable.__init__(data): a node with no creator, no gradient, and no
\* splitter attribute; `rank` is the rank the node is created with.
NewVariable(data, rank) ==
  [data |-> data, rank |-> rank, creator |-> None, splitter |-> Unset,
   grad |-> None]

\* Variable.set_creator(gen_func): record the producer and take its rank.
set_creator(S, y, gen_func) ==
  [S EXCEPT !.v[y].creator = gen_func, !.v[y].rank = S.f[gen_func].rank]

----------------------------------------------------------------------------
(* Function objects *)

\* Field names a parameterized function declares.
parameter_names == <<"W", "b">>
gradient_names == <<"gW", "gb">>

\* The classes of the function objects of the model: the base class itself,
\* Split, and concrete subclasses.
ParameterizedKinds == {"Linear"}

NoFields == [W |-> Unset, b |-> Unset, gW |-> Unset, gb |-> Unset]

\* Function.__init__: inputs, outputs and rank start as None.
NewFunction(kind, fields) ==
  [kind |-> kind, inputs |-> NoneList, outputs |-> NoneList, rank |-> NoRank,
   fields |-> fields, origin |-> None]

\* Every raw input is a GPUArray.
AllGpuInput(a, inputs) == \A i \in 1..Len(inputs) : a[inputs[i]].gpu

\* _is_gpu_input(inputs): some raw input is a GPUArray.
IsGpuInput(a, inputs) == \E i \in 1..Len(inputs) : a[inputs[i]].gpu

\* Split.__init__(var): inputs = [var], outputs = [], rank = var.rank.
SplitInit(S, var) ==
  [kind |-> "Split", inputs |-> <<var>>, outputs |-> <<>>,
   rank |-> S.v[var].rank, fields |-> NoFields, origin |-> None]

\* x.splitter = Split(x)
AttachSplit(S, x) ==
  LET sp == Len(S.f) + 1
  IN [S EXCEPT !.f = Append(S.f, SplitInit(S, x)), !.v[x].splitter = sp]

\* An add_branch that does not record the new Variable in the outputs.
AddBranchUnrecorded(S, sp) ==
  Bind([S EXCEPT !.v = Append(S.v,
                     NewVariable(S.v[S.f[sp].inputs[1]].data, 0))],
       LAMBDA S1 : set_creator(S1, Len(S1.v), sp))

\* Split.add_branch: a new Variable on the same data object, created by the
\* Split and appended to its outputs.  The new node is the last of S.v.
add_branch(S, sp) ==
  Bind([S EXCEPT !.v = Append(S.v,
                     NewVariable(S.v[S.f[sp].inputs[1]].data, 0))],
       LAMBDA S1 :
  Bind(set_creator(S1, Len(S1.v), sp),
       LAMBDA S2 :
         [S2 EXCEPT !.f[sp].outputs = Append(S2.f[sp].outputs, Len(S2.v))]))

\* The loop of Function.__call__ over enumerate(inputs), from position i on:
\* each input gets a Split unless it has a splitter attribute, and
\* self.inputs[i] becomes a new branch of it.  A splitter attribute holding
\* None makes x.splitter.add_branch() raise AttributeError, which leaves
\* the loop with the state it has reached.
RECURSIVE BranchInputs(_, _, _, _)
BranchInputs(S, self, inputs, i) ==
  IF i > Len(inputs) THEN [S |-> S, err |-> "ok"]
  ELSE
    Bind(IF S.v[inputs[i]].splitter = Unset
         THEN AttachSplit(S, inputs[i]) ELSE S,
         LAMBDA S1 :
           IF S1.v[inputs[i]].splitter = None
           THEN [S |-> S1, err |-> "AttributeError"]
           ELSE
    Bind(add_branch(S1, S1.v[inputs[i]].splitter),
         LAMBDA S2 :
    Bind([S2 EXCEPT !.f[self].inputs[i] = Len(S2.v)],
         LAMBDA S3 : BranchInputs(S3, self, inputs, i + 1))))

----------------------------------------------------------------------------
(* Forward and backward of the function classes *)

RECURSIVE SumVals(_, _)
SumVals(a, inputs) ==
  IF inputs = <<>> THEN 0 ELSE a[inputs[1]].val + SumVals(a, Tail(inputs))

\* The values a class's forward_cpu / forward_gpu computes from the raw
\* inputs (both backends compute the same values).  AddOne and Square are
\* the operations of the scenario, NoGrad adds its inputs and overrides no
\* backward, Linear is a parameterized function computing W * x + b, Pair
\* returns two values and Sink returns none.
ForwardValues(S, self, inputs) ==
  LET kind == S.f[self].kind
      x == S.a[inputs[1]].val
  IN CASE kind = "AddOne" -> <<x + 1>>
       [] kind = "Pair" -> <<x, x + 1>>
       [] kind = "Sink" -> <<>>
       [] kind = "Square" -> <<x * x>>
       [] kind = "NoGrad" -> <<SumVals(S.a, inputs)>>
       [] kind = "Linear" ->
            <<S.a[S.f[self].fields.W].val * x + S.a[S.f[self].fields.b].val>>
       [] OTHER -> <<>>

\* Function.forward_cpu: raises NotImplementedError unless the class
\* implements it; an implementation returns host arrays.  `path` records
\* the method that ran.
forward_cpu(S, self, inputs) ==
  IF S.f[self].kind \in {"Function", "Split"}
  THEN [err |-> "NotImplementedError", path |-> "cpu", outs |-> <<>>]
  ELSE LET ys == ForwardValues(S, self, inputs)
       IN [err |-> "ok", path |-> "cpu",
           outs |-> [i \in 1..Len(ys) |-> [val |-> ys[i], gpu |-> FALSE]]]

\* Function.forward_gpu: raises NotImplementedError unless the class
\* implements it; an implementation returns accelerator arrays.
forward_gpu(S, self, inputs) ==
  IF S.f[self].kind \in {"Function", "Split"}
  THEN [err |-> "NotImplementedError", path |-> "gpu", outs |-> <<>>]
  ELSE LET ys == ForwardValues(S, self, inputs)
       IN [err |-> "ok", path |-> "gpu",
           outs |-> [i \in 1..Len(ys) |-> [val |-> ys[i], gpu |-> TRUE]]]

\* Function.forward: forward_gpu if some raw input is a GPUArray, else
\* forward_cpu.
forward(S, self, inputs) ==
  IF IsGpuInput(S.a, inputs)
  THEN forward_gpu(S, self, inputs)
  ELSE forward_cpu(S, self, inputs)

\* self.outputs = list(Variable(y) for y in outputs), then set_creator(self)
\* on each: every raw output becomes a new array object and a new Variable.
RECURSIVE WrapOutputs(_, _, _)
WrapOutputs(S, self, outs) ==
  IF outs = <<>> THEN S
  ELSE
    Bind([S EXCEPT !.a = Append(S.a, outs[1]),
                   !.v = Append(S.v, NewVariable(Len(S.a) + 1, 0))],
         LAMBDA S1 :
    Bind(set_creator(S1, Len(S1.v), self),
         LAMBDA S2 : WrapOutputs(S2, self, Tail(outs))))

\* The end of a call that returns the first output whenever there is one.
FinishCallFirst(S, self, raw, fw) ==
  IF fw.err # "ok"
  THEN [S |-> S, err |-> fw.err, path |-> fw.path, single |-> FALSE,
        ret |-> <<>>]
  ELSE
    Bind([i \in 1..Len(fw.outs) |-> Len(S.v) + i],
         LAMBDA outputs :
    Bind(WrapOutputs(S, self, fw.outs),
         LAMBDA S2 :
           [S |-> [S2 EXCEPT !.f[self].outputs = outputs], err |-> "ok",
            path |-> fw.path, single |-> (Len(outputs) >= 1),
            ret |-> IF outputs = <<>> THEN <<>> ELSE <<outputs[1]>>]))

\* The end of Function.__call__, forward having returned fw on the raw
\* inputs: the outputs are wrapped and returned.
FinishCall(S, self, raw, fw) ==
  IF fw.err # "ok"
  THEN [S |-> S, err |-> fw.err, path |-> fw.path, single |-> FALSE,
        ret |-> <<>>]
  ELSE
    Bind([i \in 1..Len(fw.outs) |-> Len(S.v) + i],
         LAMBDA outputs :
    Bind(WrapOutputs(S, self, fw.outs),
         LAMBDA S2 :
           [S |-> [S2 EXCEPT !.f[self].outputs = outputs], err |-> "ok",
            path |-> fw.path, single |-> (Len(outputs) = 1),
            ret |-> outputs]))

\* The raw values of the variables xs.
RawData(S, xs) == [i \in 1..Len(xs) |-> S.v[xs[i]].data]

\* Function.__call__(self, *inputs).  Returns the heaps after the call, the
\* exception that ended it ("ok" for none), the backend forward took and
\* the returned value: `ret` lists the returned Variables and `single`
\* says that the one Variable itself, not a list, is returned.
FunctionCall(S, self, inputs) ==
  Bind([S EXCEPT !.f[self].inputs = inputs],
       LAMBDA S0 :
  Bind(BranchInputs(S0, self, inputs, 1),
       LAMBDA b :
         IF b.err # "ok"
         THEN [S |-> b.S, err |-> b.err, path |-> "none", single |-> FALSE,
               ret |-> <<>>]
         ELSE
  Bind([b.S EXCEPT !.f[self].rank =
          MaxOf([i \in 1..Len(b.S.f[self].inputs) |->
                   b.S.v[b.S.f[self].inputs[i]].rank])],
       LAMBDA S1 :
  Bind(RawData(S1, S1.f[self].inputs),
       LAMBDA raw :
  Bind(forward(S1, self, raw),
       LAMBDA fw : FinishCall(S1, self, raw, fw))))))

\* A copy that also copies the arrays the fields refer to.
DeepCopy(S, self) ==
  LET fs == S.f[self].fields
      n == Len(S.a)
  IN IF fs = NoFields
     THEN [S EXCEPT !.f = Append(S.f, [S.f[self] EXCEPT !.origin = self])]
     ELSE [S EXCEPT
             !.a = S.a \o <<S.a[fs.W], S.a[fs.b], S.a[fs.gW], S.a[fs.gb]>>,
             !.f = Append(S.f, [S.f[self] EXCEPT
                      !.origin = self,
                      !.fields = [W |-> n + 1, b |-> n + 2,
                                  gW |-> n + 3, gb |-> n + 4]])]

\* copy.copy(self): a new object with the same attribute values (the same
\* references); `origin` records the object it was copied from.
ShallowCopy(S, self) ==
  [S EXCEPT !.f = Append(S.f, [S.f[self] EXCEPT !.origin = self])]

\* Function.__call__ on the instance itself, without a copy.
CallInPlace(S, self, inputs) == FunctionCall(S, self, inputs)

\* ParameterizedFunction.__call__: Function.__call__ on a shallow copy.
ParameterizedCall(S, self, inputs) ==
  Bind(ShallowCopy(S, self),
       LAMBDA S1 : FunctionCall(S1, Len(S1.f), inputs))

\* Function.forget.  Iterating None (a node that holds no lists) raises
\* TypeError before anything is changed.
RECURSIVE ClearCreators(_, _)
ClearCreators(v, ys) ==
  IF ys = <<>> THEN v
  ELSE ClearCreators([v EXCEPT ![ys[1]].creator = None], Tail(ys))

RECURSIVE ClearSplitters(_, _)
ClearSplitters(v, xs) ==
  IF xs = <<>> THEN v
  ELSE ClearSplitters([v EXCEPT ![xs[1]].splitter = None], Tail(xs))

forget(S, self) ==
  IF S.f[self].outputs = NoneList
  THEN [S |-> S, err |-> "TypeError"]
  ELSE
    Bind(ClearCreators(S.v, S.f[self].outputs),
         LAMBDA v1 :
           IF S.f[self].inputs = NoneList
           THEN [S |-> [S EXCEPT !.v = v1], err |-> "TypeError"]
           ELSE [S |-> [S EXCEPT !.v = ClearSplitters(v1, S.f[self].inputs),
                                 !.f[self].outputs = NoneList,
                                 !.f[self].inputs = NoneList],
                 err |-> "ok"])

----------------------------------------------------------------------------
(* Backward *)

\* A default backward returning a single None whatever the inputs.
SingleNone(inputs) == <<None>>

\* Function.backward_cpu: the default returns one None per input.
\* Overrides: AddOne passes the gradient object through and Square returns
\* a new array 2 * x * gy; an override returns None for an absent output
\* gradient.  `path` records the method that ran.
DefaultBackward(inputs) == [i \in 1..Len(inputs) |-> None]

BackwardOn(S, self, inputs, grad_outputs, gpu) ==
  LET kind == S.f[self].kind
      gy == grad_outputs[1]
      x == S.a[inputs[1]].val
      path == IF gpu THEN "gpu" ELSE "cpu"
  IN IF kind \notin {"AddOne", "Square"}
     THEN [S |-> S, path |-> path, gxs |-> DefaultBackward(inputs)]
     ELSE IF gy = None THEN [S |-> S, path |-> path, gxs |-> <<None>>]
     ELSE IF kind = "AddOne" THEN [S |-> S, path |-> path, gxs |-> <<gy>>]
     ELSE [S |-> [S EXCEPT !.a = Append(S.a,
                     [val |-> 2 * x * S.a[gy].val, gpu |-> gpu])],
           path |-> path, gxs |-> <<Len(S.a) + 1>>]

backward_cpu(S, self, inputs, grad_outputs) ==
  BackwardOn(S, self, inputs, grad_outputs, FALSE)

\* Function.backward_gpu: as backward_cpu, on the accelerator.
backward_gpu(S, self, inputs, grad_outputs) ==
  BackwardOn(S, self, inputs, grad_outputs, TRUE)

\* Function.backward: backward_gpu if some raw input is a GPUArray, else
\* backward_cpu.
FunctionBackward(S, self, inputs, grad_outputs) ==
  IF IsGpuInput(S.a, inputs)
  THEN backward_gpu(S, self, inputs, grad_outputs)
  ELSE backward_cpu(S, self, inputs, grad_outputs)

\* Split.backward accumulating into the first present gradient itself,
\* without a copy.
RECURSIVE SplitAccumulateNoCopy(_, _, _, _)
SplitAccumulateNoCopy(a, grad_outputs, i, gx) ==
  IF i > Len(grad_outputs) THEN [a |-> a, gx |-> gx]
  ELSE LET gy == grad_outputs[i]
       IN IF gy = None THEN SplitAccumulateNoCopy(a, grad_outputs, i + 1, gx)
          ELSE IF gx = None
          THEN SplitAccumulateNoCopy(a, grad_outputs, i + 1, gy)
          ELSE Bind([a EXCEPT ![gx].val = @ + a[gy].val],
                    LAMBDA a1 :
                      SplitAccumulateNoCopy(a1, grad_outputs, i + 1, gx))

\* Split.backward with a later gradient replacing the accumulator instead
\* of being added to it.
RECURSIVE SplitAccumulateOverwrite(_, _, _, _)
SplitAccumulateOverwrite(a, grad_outputs, i, gx) ==
  IF i > Len(grad_outputs) THEN [a |-> a, gx |-> gx]
  ELSE LET gy == grad_outputs[i]
       IN IF gy = None
          THEN SplitAccumulateOverwrite(a, grad_outputs, i + 1, gx)
          ELSE IF Len(grad_outputs) = 1
          THEN SplitAccumulateOverwrite(a, grad_outputs, i + 1, gy)
          ELSE Bind(Append(a, a[gy]),
                    LAMBDA a1 :
                      SplitAccumulateOverwrite(a1, grad_outputs, i + 1,
                                               Len(a1)))

\* The loop of Split.backward from position i on, gx being the accumulator
\* so far: None entries are skipped; the first present gradient becomes gx,
\* itself when grad_outputs has one entry and a copy (a new array) when it
\* has more; every later one is added into gx in place.
RECURSIVE SplitAccumulate(_, _, _, _)
SplitAccumulate(a, grad_outputs, i, gx) ==
  IF i > Len(grad_outputs) THEN [a |-> a, gx |-> gx]
  ELSE LET gy == grad_outputs[i]
       IN IF gy = None THEN SplitAccumulate(a, grad_outputs, i + 1, gx)
          ELSE IF gx = None
          THEN IF Len(grad_outputs) = 1
               THEN SplitAccumulate(a, grad_outputs, i + 1, gy)
               ELSE Bind(Append(a, a[gy]),
                         LAMBDA a1 :
                           SplitAccumulate(a1, grad_outputs, i + 1, Len(a1)))
          ELSE Bind([a EXCEPT ![gx].val = @ + a[gy].val],
                    LAMBDA a1 : SplitAccumulate(a1, grad_outputs, i + 1, gx))

\* Split.backward(inputs, grad_outputs): returns (gx,).
SplitBackward(S, grad_outputs) ==
  Bind(SplitAccumulate(S.a, grad_outputs, 1, None),
       LAMBDA r : [S |-> [S EXCEPT !.a = r.a], path |-> "none",
                   gxs |-> <<r.gx>>])

\* backward of a function object, by its class.
backward(S, self, inputs, grad_outputs) ==
  IF S.f[self].kind = "Split"
  THEN SplitBackward(S, grad_outputs)
  ELSE FunctionBackward(S, self, inputs, grad_outputs)

----------------------------------------------------------------------------
(* Capability accessors *)

Min(a, b) == IF a <= b THEN a ELSE b

\* ParameterizedFunction getter: tuple(getattr(self, name) for name in names).
GetFields(S, self, names) ==
  [i \in 1..Len(names) |-> S.f[self].fields[names[i]]]

\* A setter pairing the names with the values taken from the end.
SetFieldsReversed(fields, names, values, i) ==
  LET n == Min(Len(names), Len(values))
  IN [name \in DOMAIN fields |->
        IF \E k \in 1..n : names[k] = name
        THEN values[Len(values) + 1 - (CHOOSE k \in 1..n : names[k] = name)]
        ELSE fields[name]]

\* ParameterizedFunction setter: setattr(self, name, value) for each pair of
\* zip(names, values).
RECURSIVE SetFields(_, _, _, _)
SetFields(fields, names, values, i) ==
  IF i > Min(Len(names), Len(values)) THEN fields
  ELSE SetFields([fields EXCEPT ![names[i]] = values[i]], names, values, i + 1)

\* The `parameters` property read on an object of either class.
parameters(S, self) ==
  IF S.f[self].kind \in ParameterizedKinds
  THEN GetFields(S, self, parameter_names)
  ELSE <<>>

\* The `gradients` property read on an object of either class.
gradients(S, self) ==
  IF S.f[self].kind \in ParameterizedKinds
  THEN GetFields(S, self, gradient_names)
  ELSE <<>>

\* A setter that zips onto the fields whatever the class.
ZipAnyClass(S, self, names, values) ==
  [S |-> [S EXCEPT !.f[self].fields =
            SetFields(S.f[self].fields, names, values, 1)],
   err |-> "ok"]

\* Assignment to `parameters` (names = parameter_names) or to `gradients`
\* (names = gradient_names): the base class raises RuntimeError unless the
\* value is the empty tuple, the parameterized class zips.
SetAccessor(S, self, names, values) ==
  IF S.f[self].kind \in ParameterizedKinds
  THEN [S |-> [S EXCEPT !.f[self].fields =
                  SetFields(S.f[self].fields, names, values, 1)],
        err |-> "ok"]
  ELSE IF values # <<>>
       THEN [S |-> S, err |-> "RuntimeError"]
       ELSE [S |-> S, err |-> "ok"]

----------------------------------------------------------------------------
(* Backward traversal (the graph driver) *)

\* The function objects reachable from the variables V by creator links
\* and then through inputs.
Creators(S, V) == {S.v[x].creator : x \in V} \ {None}

InputsOf(S, f) ==
  IF S.f[f].inputs = NoneList THEN {} ELSE Range(S.f[f].inputs)

RECURSIVE Ancestors(_, _)
Ancestors(S, F) ==
  Bind(F \cup UNION {Creators(S, InputsOf(S, f)) : f \in F},
       LAMBDA G : IF G = F THEN F ELSE Ancestors(S, G))

\* Store the gradients gxs into the gradient slots of the inputs xs, from
\* position i on: assign if the slot is empty, add in place if it is
\* populated; None contributes nothing.
RECURSIVE Accumulate(_, _, _, _)
Accumulate(S, xs, gxs, i) ==
  IF i > Min(Len(xs), Len(gxs)) THEN S
  ELSE
    Bind(IF gxs[i] = None THEN S
         ELSE IF S.v[xs[i]].grad = None
              THEN [S EXCEPT !.v[xs[i]].grad = gxs[i]]
              ELSE [S EXCEPT !.a[S.v[xs[i]].grad].val = @ + S.a[gxs[i]].val],
         LAMBDA S1 : Accumulate(S1, xs, gxs, i + 1))

\* The gradient slots of the variables ys.
Grads(S, ys) == [i \in 1..Len(ys) |-> S.v[ys[i]].grad]

\* One operation of the traversal: gather the gradients of its outputs,
\* call its backward on the raw inputs, accumulate into its inputs.
ProcessNode(S, f) ==
  IF S.f[f].inputs = NoneList \/ S.f[f].outputs = NoneList
  THEN [S |-> S, err |-> "TypeError", path |-> "none", gxs |-> <<>>]
  ELSE
    Bind(RawData(S, S.f[f].inputs),
         LAMBDA raw :
    Bind(Grads(S, S.f[f].outputs),
         LAMBDA gys :
    Bind(backward(S, f, raw, gys),
         LAMBDA r :
    Bind(Accumulate(r.S, S.f[f].inputs, r.gxs, 1),
         LAMBDA S1 :
           [S |-> S1, err |-> "ok",
            path |-> r.path, gxs |-> r.gxs]))))

----------------------------------------------------------------------------
(* The graph machine: construction, invocation, forget, backward pass *)

\* What the last operation did: the method, the object it was called on,
\* its arguments, the exception that ended it ("ok" for none), the backend
\* it dispatched to, and its result.  `node` is the object the body of
\* Function.__call__ ran on: self, or the copy of a parameterized self;
\* `grads` is the grad_outputs argument of a backward called directly.
Outcome(op, self, args, err, path, single, ret) ==
  [op |-> op, self |-> self, node |-> self, args |-> args, grads |-> <<>>,
   err |-> err, path |-> path, single |-> single, ret |-> ret]

Idle == [status |-> "idle", todo |-> {}]

\* Nothing has been called yet.
NoCount == [calls |-> 0, forgets |-> 0, sets |-> 0, mutations |-> 0]

\* Gradient values the caller seeds.
SeedValues == {1}

\* Function classes the caller constructs.
CallKinds == {"Function", "NoGrad"}

Arity(kind) == IF kind = "NoGrad" THEN {1, 2} ELSE {1}

Leaf(val, gpu) == [val |-> val, gpu |-> gpu]

\* The leaves differ in rank and in placement: leaf i is created with rank
\* i - 1, and every second leaf is on the accelerator.
LeafValue == 2
LeafRank(i) == i - 1
LeafGpu(i) == i % 2 = 0

\* The caller creates the leaf Variables, each on an array of its own.
InitLeaves(n) ==
  /\ arrays = [i \in 1..n |-> Leaf(LeafValue, LeafGpu(i))]
  /\ variables = [i \in 1..n |-> NewVariable(i, LeafRank(i))]

Init ==
  /\ InitLeaves(MaxLeaves)
  /\ functions = <<>>
  /\ last = Outcome("init", None, <<>>, "ok", "none", FALSE, <<>>)
  /\ trav = Idle
  /\ count = NoCount

\* The heaps of the current state.
Now == Heap(variables, functions, arrays)

Install(S) ==
  /\ variables' = S.v
  /\ functions' = S.f
  /\ arrays' = S.a

\* A function object that was constructed and never invoked.
Fresh(f) == f.inputs = NoneList /\ f.rank = NoRank

\* Initial values of the fields of Linear: W, b and zeroed gW, gb.
LinearValues == <<3, 1, 0, 0>>

\* Kind.__init__: Function.__init__, and a parameterized class allocates
\* its parameter and gradient arrays on the host.
NewObject(S, kind) ==
  IF kind \in ParameterizedKinds
  THEN [S EXCEPT
          !.a = S.a \o [i \in 1..4 |-> Leaf(LinearValues[i], FALSE)],
          !.f = Append(S.f, NewFunction(kind,
                  [W |-> Len(S.a) + 1, b |-> Len(S.a) + 2,
                   gW |-> Len(S.a) + 3, gb |-> Len(S.a) + 4]))]
  ELSE [S EXCEPT !.f = Append(S.f, NewFunction(kind, NoFields))]

\* f = Kind(): construct a function object.
Construct(kind) ==
  /\ trav.status # "running"
  /\ Install(NewObject(Now, kind))
  /\ last' = Outcome("construct", Len(functions) + 1, <<>>, "ok", "none",
                     FALSE, <<>>)
  /\ UNCHANGED <<trav, count>>

\* self(*inputs)
Call(self, inputs) ==
  /\ trav.status # "running"
  /\ functions[self].kind # "Split"
  /\ \E r \in {IF functions[self].kind \in ParameterizedKinds
               THEN ParameterizedCall(Now, self, inputs)
               ELSE FunctionCall(Now, self, inputs)} :
       /\ Install(r.S)
       /\ last' = [Outcome("call", self, inputs, r.err, r.path, r.single,
                           r.ret)
                     EXCEPT !.node =
                       IF functions[self].kind \in ParameterizedKinds
                       THEN Len(functions) + 1 ELSE self]
  /\ count' = [count EXCEPT !.calls = @ + 1]
  /\ UNCHANGED trav

\* self.forget()
Forget(self) ==
  /\ trav.status # "running"
  /\ \E r \in {forget(Now, self)} :
       /\ Install(r.S)
       /\ last' = Outcome("forget", self, <<>>, r.err, "none", FALSE, <<>>)
  /\ count' = [count EXCEPT !.forgets = @ + 1]
  /\ UNCHANGED trav

\* x.grad = g: the caller seeds a gradient on a variable whose slot is
\* empty, before the backward pass.
Seed(x, val, gpu) ==
  /\ trav.status = "idle"
  /\ variables[x].grad = None
  /\ arrays' = Append(arrays, Leaf(val, gpu))
  /\ variables' = [variables EXCEPT ![x].grad = Len(arrays) + 1]
  /\ last' = Outcome("seed", x, <<>>, "ok", "none", FALSE, <<>>)
  /\ UNCHANGED <<functions, trav, count>>

\* The variables holding a gradient.
Seeded(S) == {x \in 1..Len(S.v) : S.v[x].grad # None}

\* The backward pass starts from the seeded variables: the operations to
\* process are those reachable from them.
StartBackward ==
  /\ trav.status = "idle"
  /\ Creators(Now, Seeded(Now)) # {}
  /\ trav' = [status |-> "running",
              todo |-> Ancestors(Now, Creators(Now, Seeded(Now)))]
  /\ last' = Outcome("start", None, <<>>, "ok", "none", FALSE, <<>>)
  /\ UNCHANGED <<variables, functions, arrays, count>>

\* The operations the pass may process next: those of the highest rank
\* among the ones not yet processed.
Ready(S, todo) == {f \in todo : \A g \in todo : S.f[g].rank <= S.f[f].rank}

\* The pass processes one operation; an exception ends the pass.
BackwardStep(f) ==
  /\ trav.status = "running"
  /\ f \in Ready(Now, trav.todo)
  /\ \E r \in {ProcessNode(Now, f)} :
       /\ Install(r.S)
       /\ last' = Outcome("backward", f, <<>>, r.err, r.path, FALSE, r.gxs)
       /\ trav' = IF r.err = "ok" /\ trav.todo # {f}
                  THEN [trav EXCEPT !.todo = @ \ {f}]
                  ELSE [status |-> "done", todo |-> trav.todo \ {f}]
  /\ UNCHANGED count

\* self.forward(inputs) called directly on raw arrays; the caller keeps
\* the arrays returned.
DirectForward(self, inputs) ==
  /\ \E fw \in {forward(Now, self, inputs)} :
       /\ arrays' = arrays \o fw.outs
       /\ last' = Outcome("forward", self, inputs, fw.err, fw.path, FALSE,
                          [i \in 1..Len(fw.outs) |-> Len(arrays) + i])
  /\ count' = [count EXCEPT !.calls = @ + 1]
  /\ UNCHANGED <<variables, functions, trav>>

\* self.backward(inputs, grad_outputs) called directly on raw arrays.
DirectBackward(self, inputs, grad_outputs) ==
  /\ \E r \in {backward(Now, self, inputs, grad_outputs)} :
       /\ Install(r.S)
       /\ last' = [Outcome("backward", self, inputs, "ok", r.path, FALSE,
                           r.gxs) EXCEPT !.grads = grad_outputs]
  /\ count' = [count EXCEPT !.calls = @ + 1]
  /\ UNCHANGED trav

\* self.parameters = values (names = parameter_names) or
\* self.gradients = values (names = gradient_names).
Assign(self, names, values) ==
  /\ \E r \in {SetAccessor(Now, self, names, values)} :
       /\ Install(r.S)
       /\ last' = Outcome(IF names = parameter_names
                          THEN "set_parameters" ELSE "set_gradients",
                          self, values, r.err, "none", FALSE, <<>>)
  /\ count' = [count EXCEPT !.sets = @ + 1]
  /\ UNCHANGED trav

\* An in-place update of the array the field `name` of self refers to
\* (p += 1 on an element of self.parameters or self.gradients).
Mutate(self, name) ==
  /\ functions[self].fields[name] # Unset
  /\ arrays' = [arrays EXCEPT ![functions[self].fields[name]].val = @ + 1]
  /\ last' = Outcome("mutate", self, <<name>>, "ok", "none", FALSE, <<>>)
  /\ count' = [count EXCEPT !.mutations = @ + 1]
  /\ UNCHANGED <<variables, functions, trav>>

\* The variables a caller passes to a call: leaves and results of
\* operations, not the branches a Split made.
Held(x) ==
  \/ variables[x].creator = None
  \/ functions[variables[x].creator].kind # "Split"

\* Tuples of variables a call may be given.
InputTuples(kind) ==
  UNION {[1..n -> {x \in 1..Len(variables) : Held(x)}] : n \in Arity(kind)}

\* The function objects the caller constructed (Split objects and the
\* per-call copies are made by the calls).
Constructed ==
  {f \in 1..Len(functions) :
     functions[f].kind # "Split" /\ functions[f].origin = None}

\* The exploration constructs a function object only when every earlier
\* one has been invoked.
NoneFresh == \A f \in 1..Len(functions) : ~Fresh(functions[f])

\* The variables a caller seeds: results of operations not consumed yet.
Terminal(x) ==
  /\ variables[x].splitter = Unset
  /\ variables[x].creator # None
  /\ functions[variables[x].creator].kind # "Split"

\* No gradient is seeded and no pass has started.
Building == trav.status = "idle" /\ Seeded(Now) = {}

\* The caller builds the graph, then seeds gradients, then runs the pass.
Next ==
  \/ \E kind \in CallKinds :
       /\ Building /\ NoneFresh /\ Cardinality(Constructed) < MaxOps
       /\ Construct(kind)
  \/ \E self \in 1..Len(functions) :
       \E inputs \in InputTuples(functions[self].kind) :
         Building /\ count.calls < MaxCalls /\ Call(self, inputs)
  \/ \E self \in 1..Len(functions) :
       Building /\ count.forgets < MaxForgets /\ Forget(self)

Spec == Init /\ [][Next]_vars

\* The caller only constructs and invokes.
NextInvoke ==
  \/ \E kind \in CallKinds :
       /\ NoneFresh /\ Cardinality(Constructed) < MaxOps
       /\ Construct(kind)
  \/ \E self \in 1..Len(functions) :
       \E inputs \in InputTuples(functions[self].kind) :
         count.calls < MaxCalls /\ Call(self, inputs)

SpecInvoke == Init /\ [][NextInvoke]_vars

----------------------------------------------------------------------------
(* Invocations of operations with one, two and no outputs *)

ShapeKinds == {"AddOne", "Pair", "Sink"}

NextShape ==
  \/ \E kind \in ShapeKinds :
       /\ NoneFresh /\ Cardinality(Constructed) < MaxOps
       /\ Construct(kind)
  \/ \E self \in 1..Len(functions) :
       \E inputs \in InputTuples(functions[self].kind) :
         count.calls < MaxCalls /\ Call(self, inputs)

SpecShape == Init /\ [][NextShape]_vars

----------------------------------------------------------------------------
(* forward and backward called directly on raw arrays *)

DispatchKinds == {"Function", "Square", "NoGrad"}

\* The caller holds one host array and one accelerator array.
InitDispatch ==
  /\ arrays = <<Leaf(LeafValue, FALSE), Leaf(LeafValue, TRUE)>>
  /\ variables = <<>>
  /\ functions = <<>>
  /\ last = Outcome("init", None, <<>>, "ok", "none", FALSE, <<>>)
  /\ trav = Idle
  /\ count = NoCount

\* Tuples of raw arrays a method may be given.
ArrayTuples(kind) == UNION {[1..n -> 1..Len(arrays)] : n \in Arity(kind)}

\* grad_outputs of an operation with one output: an array or None.
GradTuples == {<<g>> : g \in {None} \cup (1..Len(arrays))}

NextDispatch ==
  \/ \E kind \in DispatchKinds :
       /\ \A f \in 1..Len(functions) : functions[f].kind # kind
       /\ Construct(kind)
  \/ \E self \in 1..Len(functions) :
       \E inputs \in ArrayTuples(functions[self].kind) :
         count.calls < MaxCalls /\ DirectForward(self, inputs)
  \/ \E self \in 1..Len(functions) :
       \E inputs \in ArrayTuples(functions[self].kind) :
         \E grad_outputs \in GradTuples :
           /\ count.calls < MaxCalls
           /\ DirectBackward(self, inputs, grad_outputs)

SpecDispatch == InitDispatch /\ [][NextDispatch]_vars

----------------------------------------------------------------------------
(* Parameters and gradients of function objects *)

\* Assignments through a setter and in-place updates of one run.
MaxUpdates == 1

ParamKinds == {"Linear", "NoGrad"}

\* The caller holds one leaf Variable and one spare array.
InitParams ==
  /\ arrays = <<Leaf(LeafValue, FALSE), Leaf(LeafValue, FALSE)>>
  /\ variables = <<NewVariable(1, 0)>>
  /\ functions = <<>>
  /\ last = Outcome("init", None, <<>>, "ok", "none", FALSE, <<>>)
  /\ trav = Idle
  /\ count = NoCount

\* Values the caller assigns through a setter: tuples of the leaf's array
\* and the spare array, shorter and longer than the declared names.
AssignedValues == {<<>>, <<2>>, <<2, 2>>, <<1, 2>>, <<1, 2, 2>>}

NextParams ==
  \/ \E kind \in ParamKinds :
       /\ \A f \in 1..Len(functions) : functions[f].kind # kind
       /\ Construct(kind)
  \/ \E self \in Constructed :
       count.calls < MaxCalls /\ Call(self, <<1>>)
  \/ \E self \in 1..Len(functions) :
       \E names \in {parameter_names, gradient_names} :
         \E values \in AssignedValues :
           count.sets + count.mutations < MaxUpdates /\ Assign(self, names, values)
  \/ \E self \in 1..Len(functions) :
       \E name \in Range(parameter_names) \cup Range(gradient_names) :
         count.sets + count.mutations < MaxUpdates /\ Mutate(self, name)

SpecParams == InitParams /\ [][NextParams]_vars

----------------------------------------------------------------------------
(* The backward pass over graphs of differentiable operations *)

\* Function objects of the graph a pass runs over.
MaxPassOps == 2

PassKinds == {"AddOne", "Square", "NoGrad"}

\* The leaf of the graph is on the host or on the accelerator.
InitBackward ==
  /\ \E gpu \in BOOLEAN :
       /\ arrays = <<Leaf(LeafValue, gpu)>>
       /\ variables = <<NewVariable(1, 0)>>
  /\ functions = <<>>
  /\ last = Outcome("init", None, <<>>, "ok", "none", FALSE, <<>>)
  /\ trav = Idle
  /\ count = NoCount

\* The caller builds a graph of at most maxOps function objects of the
\* classes `kinds`, each invoked once, seeds unit gradients on results,
\* and runs the pass.
PassNext(kinds, maxOps) ==
  \/ \E kind \in kinds :
       /\ Building /\ NoneFresh /\ Cardinality(Constructed) < maxOps
       /\ Construct(kind)
  \/ \E self \in 1..Len(functions) :
       \E inputs \in InputTuples(functions[self].kind) :
         Building /\ Fresh(functions[self]) /\ Call(self, inputs)
  \/ \E x \in 1..Len(variables), val \in SeedValues :
       Terminal(x) /\ Seed(x, val, arrays[variables[x].data].gpu)
  \/ StartBackward
  \/ \E f \in 1..Len(functions) : BackwardStep(f)

NextBackward == PassNext(PassKinds, MaxPassOps)

SpecBackward == InitBackward /\ [][NextBackward]_vars

----------------------------------------------------------------------------
(* The scenario: a = 2, b = AddOne(a), c = Square(b), d = Square(b) *)

ScenarioOps == 3
ScenarioKinds == {"AddOne", "Square"}

InitScenario ==
  /\ arrays = <<Leaf(LeafValue, FALSE)>>
  /\ variables = <<NewVariable(1, 0)>>
  /\ functions = <<>>
  /\ last = Outcome("init", None, <<>>, "ok", "none", FALSE, <<>>)
  /\ trav = Idle
  /\ count = NoCount

NextScenario == PassNext(ScenarioKinds, ScenarioOps)

SpecScenario == InitScenario /\ [][NextScenario]_vars

----------------------------------------------------------------------------
(* Properties *)

\* The sum of the gradients present (not None) among the references gys.
RECURSIVE SumPresent(_, _)
SumPresent(a, gys) ==
  IF gys = <<>> THEN 0
  ELSE (IF gys[1] = None THEN 0 ELSE a[gys[1]].val)
       + SumPresent(a, Tail(gys))

AllAbsent(gys) == \A i \in 1..Len(gys) : gys[i] = None

\* The pass has just run the backward of function object f.
Ran(f) == last'.op = "backward" /\ last'.err = "ok" /\ last'.self = f

ProducedBy(y, kind, x) ==
  /\ variables[y].creator # None
  /\ functions[variables[y].creator].kind = kind
  /\ functions[variables[y].creator].outputs = <<y>>
  /\ functions[variables[y].creator].inputs # NoneList
  /\ Len(functions[variables[y].creator].inputs) = 1
  /\ LET x1 == functions[variables[y].creator].inputs[1]
     IN /\ variables[x1].creator # None
        /\ functions[variables[x1].creator].kind = "Split"
        /\ functions[variables[x1].creator].inputs = <<x>>

ScenarioGraph(a, b, c, d) ==
  /\ variables[a].creator = None /\ arrays[variables[a].data].val = 2
  /\ ProducedBy(b, "AddOne", a)
  /\ ProducedBy(c, "Square", b)
  /\ ProducedBy(d, "Square", b)
  /\ c # d
  /\ Len(functions[variables[b].splitter].outputs) = 2

GradIs(x, val) ==
  variables[x].grad # None /\ arrays[variables[x].grad].val = val

ScenarioGradientsReached ==
  \E a, b, c, d \in 1..Len(variables) :
    /\ ScenarioGraph(a, b, c, d)
    /\ trav.status = "done"
    /\ GradIs(b, 12) /\ GradIs(a, 12)

\* C4: in every state a sequence of invocations reaches, every function
\* object that holds a rank holds inputs, its rank is the rank of one of
\* them and no input has a higher rank; and the rank of an object changes
\* only in an invocation whose body runs on that object.
RankMonotonicity ==
  /\ [](\A f \in 1..Len(functions) :
          functions[f].rank # NoRank =>
            /\ functions[f].inputs # NoneList
            /\ \E i \in 1..Len(functions[f].inputs) :
                 functions[f].rank = variables[functions[f].inputs[i]].rank
            /\ \A i \in 1..Len(functions[f].inputs) :
                 variables[functions[f].inputs[i]].rank <= functions[f].rank)
  /\ [][\A f \in 1..Len(functions) :
          functions'[f].rank # functions[f].rank =>
            /\ last'.op = "call" /\ last'.node = f
            /\ functions[f].kind # "Split"]_vars

\* C4 witness: an invocation on two inputs of ranks 0 and 1 has completed
\* and its node has rank 1.
RankMonotonicityWitness ==
  /\ last.op = "call" /\ last.err = "ok"
  /\ Len(functions[last.node].inputs) = 2
  /\ variables[functions[last.node].inputs[1]].rank = 0
  /\ variables[functions[last.node].inputs[2]].rank = 1
  /\ functions[last.node].rank = 1

\* The variable a call was given where its node holds the branch x: the
\* variable the Split that made x branches, or x itself.
Passed(x) ==
  IF variables[x].creator # None
     /\ functions[variables[x].creator].kind = "Split"
  THEN functions[variables[x].creator].inputs[1]
  ELSE x

\* The function objects reachable from the variables V by creator,
\* splitter and Split-output links.
RECURSIVE Linked(_, _)
Linked(S, V) ==
  Bind({S.v[x].creator : x \in V} \cup {S.v[x].splitter : x \in V},
       LAMBDA F :
  Bind(V \cup UNION {Range(S.f[f].outputs) :
                       f \in {g \in F \ {None, Unset} :
                                S.f[g].kind = "Split"}},
       LAMBDA W : IF W = V THEN F \ {None, Unset} ELSE Linked(S, W)))

\* C6: after forget() on an invoked operation, its former outputs have no
\* creator, the variables that were passed to the invocation have no
\* splitter, the operation holds neither inputs nor outputs, and no held
\* variable leads to it.
ForgetIsolates ==
  [][\A f \in 1..Len(functions) :
       (/\ last'.op = "forget" /\ last'.self = f /\ last'.err = "ok"
        /\ functions[f].kind # "Split")
       => /\ \A y \in Range(functions[f].outputs) :
               variables'[y].creator = None
          /\ \A x \in Range(functions[f].inputs) :
               variables'[Passed(x)].splitter \in {None, Unset}
          /\ functions'[f].inputs = NoneList
          /\ functions'[f].outputs = NoneList
          /\ f \notin Linked(Heap(variables', functions', arrays'),
                             {x \in 1..Len(variables) : Held(x)})]_vars

\* C7: an invocation that ends with NotImplementedError creates no
\* variable and leaves the function objects (the inputs, outputs and rank
\* of the operation, the outputs of every Split) and the variables (their
\* splitter links) as they were.
FailedForwardLeavesNoState ==
  [][(last'.op = "call" /\ last'.err = "NotImplementedError")
       => /\ variables' = variables
          /\ functions' = functions]_vars

\* C9: when the pass runs the backward of an operation that overrides no
\* backward, on the host path or on the accelerator path, the result is one
\* None per input, and no gradient slot and no array changes.
DefaultBackwardInert ==
  [][\A f \in 1..Len(functions) :
       (Ran(f) /\ functions[f].kind = "NoGrad") =>
         /\ last'.path \in {"cpu", "gpu"}
         /\ Len(last'.ret) = Len(functions[f].inputs)
         /\ \A i \in 1..Len(last'.ret) : last'.ret[i] = None
         /\ \A x \in 1..Len(variables) :
              variables'[x].grad = variables[x].grad
         /\ arrays' = arrays]_vars

\* C9 witness: the default backward of an operation with two inputs has
\* run on the accelerator path with a gradient present at its output.
DefaultBackwardInertWitness ==
  /\ last.op = "backward" /\ last.err = "ok" /\ last.path = "gpu"
  /\ functions[last.self].kind = "NoGrad"
  /\ Len(functions[last.self].inputs) = 2
  /\ variables[functions[last.self].outputs[1]].grad # None
  /\ last.ret = <<None, None>>

\* The nodes of the calls of a parameterized instance: its copies.
CallNodes == {n \in 1..Len(functions) : functions[n].origin # None}

\* The value read through field `name` of object f.
FieldValue(a, fs, f, name) == a[fs[f].fields[name]].val

\* C5 as stated: whatever assignments and in-place updates are
\* interleaved, any two call nodes of one instance read reference-equal
\* parameters, and after a change made through a call node every call node
\* of the instance and the instance itself read what that node reads.
ParameterSharingAlways ==
  /\ [](\A n1, n2 \in CallNodes :
          functions[n1].origin = functions[n2].origin
            => parameters(Now, n1) = parameters(Now, n2))
  /\ [][\A n \in CallNodes :
          (last'.op \in {"set_parameters", "set_gradients", "mutate"}
           /\ last'.self = n)
          => \A m \in 1..Len(functions) :
               (m = functions[n].origin
                \/ functions[m].origin = functions[n].origin)
               => /\ functions'[m].fields = functions'[n].fields
                  /\ \A name \in Range(parameter_names)
                                   \cup Range(gradient_names) :
                       FieldValue(arrays', functions', m, name)
                         = FieldValue(arrays', functions', n, name)]_vars

\* C5 amended: a call of a parameterized instance makes a node holding the
\* references the instance holds at the call and rebinds no other object;
\* an assignment through a setter rebinds the object it is made on only;
\* an in-place update rebinds nothing and is read through every object
\* holding that reference; so as long as no setter has assigned, every
\* call node reads the parameters and gradients its instance reads.
ParameterSharing ==
  /\ [](count.sets = 0 =>
          \A n \in CallNodes :
            /\ parameters(Now, n) = parameters(Now, functions[n].origin)
            /\ gradients(Now, n) = gradients(Now, functions[n].origin))
  /\ [][/\ (last'.op = "call"
            /\ functions[last'.self].kind \in ParameterizedKinds)
           => /\ last'.node = Len(functions) + 1
              /\ functions'[last'.node].fields
                   = functions[last'.self].fields
              /\ \A f \in 1..Len(functions) :
                   functions'[f].fields = functions[f].fields
        /\ last'.op \in {"set_parameters", "set_gradients"}
           => \A m \in 1..Len(functions) \ {last'.self} :
                functions'[m].fields = functions[m].fields
        /\ last'.op = "mutate"
           => /\ functions' = functions
              /\ \A m \in 1..Len(functions) :
                   functions[m].fields[last'.args[1]]
                     = functions[last'.self].fields[last'.args[1]]
                   => FieldValue(arrays', functions', m, last'.args[1])
                        = FieldValue(arrays, functions, m, last'.args[1])
                          + 1]_vars

\* C5 witness: the instance was called twice, gW was updated in place
\* through the first call's node, and the second call's node and the
\* instance read the updated value.
ParameterSharingWitness ==
  /\ last.op = "mutate" /\ last.args = <<"gW">>
  /\ last.self \in CallNodes
  /\ \E n2 \in CallNodes \ {last.self} :
       /\ functions[n2].origin = functions[last.self].origin
       /\ gradients(Now, n2) = gradients(Now, last.self)
       /\ FieldValue(arrays, functions, n2, "gW") = 1
       /\ FieldValue(arrays, functions, functions[n2].origin, "gW") = 1

\* Some array among the raw inputs is on the accelerator.
SomeOnGpu(inputs) == \E i \in 1..Len(inputs) : arrays[inputs[i]].gpu

\* C8: forward called on raw inputs runs forward_gpu if some input is on
\* the accelerator and forward_cpu otherwise, and backward called on raw
\* inputs and gradients chooses between backward_gpu and backward_cpu by
\* its own inputs in the same way, whatever the gradients are and whatever
\* ran before.
BackendDispatch ==
  [][last'.op \in {"forward", "backward"} =>
       last'.path = IF SomeOnGpu(last'.args) THEN "gpu" ELSE "cpu"]_vars

\* C8 witness: backward ran on the host path for host inputs with a
\* gradient that an earlier accelerator-path call produced.
BackendDispatchWitness ==
  /\ last.op = "backward" /\ last.path = "cpu"
  /\ ~SomeOnGpu(last.args)
  /\ last.grads[1] > 2
  /\ arrays[last.grads[1]].gpu

\* C10: an object of a non-parameterized class reads empty parameters and
\* gradients in every state; assigning a non-empty value to either raises
\* RuntimeError, assigning the empty tuple raises nothing, and neither
\* changes any object.
PlainAccessors ==
  /\ [](\A f \in 1..Len(functions) :
          functions[f].kind \notin ParameterizedKinds =>
            /\ parameters(Now, f) = <<>>
            /\ gradients(Now, f) = <<>>
            /\ functions[f].fields = NoFields)
  /\ [][(/\ last'.op \in {"set_parameters", "set_gradients"}
         /\ functions[last'.self].kind \notin ParameterizedKinds)
        => /\ last'.err = IF last'.args = <<>> THEN "ok" ELSE "RuntimeError"
           /\ functions' = functions
           /\ variables' = variables
           /\ arrays' = arrays]_vars

\* C10 witness: assigning a pair to the parameters of an invoked
\* non-parameterized operation raised RuntimeError.
PlainAccessorsWitness ==
  /\ last.op = "set_parameters" /\ last.err = "RuntimeError"
  /\ last.args = <<2, 2>>
  /\ functions[last.self].kind = "NoGrad"
  /\ functions[last.self].outputs # NoneList


\* The number of positions up to i at which the tuple xs holds x.
Occurrences(xs, x, i) == Cardinality({j \in 1..i : xs[j] = x})

\* The outputs of the Split of variable x (none before its first use).
BranchesOf(v, f, x) ==
  IF v[x].splitter \in {Unset, None} THEN <<>> ELSE f[v[x].splitter].outputs

\* C11: in every state invocations reach, a variable with a Split holds
\* the one Split made on it, whose outputs are pairwise distinct variables
\* on the variable's own data object with the Split as creator; and an
\* invocation keeps the Split a passed variable has (making one if it has
\* none), appends to its outputs one new variable per position at which
\* the variable is passed, in order, and makes those new variables, not
\* the passed ones, the inputs of the invoked node.
BranchBookkeeping ==
  /\ [](\A x \in 1..Len(variables) :
          variables[x].splitter # Unset =>
            LET sp == variables[x].splitter
            IN /\ sp # None
               /\ functions[sp].kind = "Split"
               /\ functions[sp].inputs = <<x>>
               /\ \A y \in 1..Len(variables) :
                    (y # x /\ variables[y].splitter # Unset)
                      => variables[y].splitter # sp
               /\ \A i, j \in 1..Len(functions[sp].outputs) :
                    i # j => functions[sp].outputs[i] # functions[sp].outputs[j]
               /\ \A i \in 1..Len(functions[sp].outputs) :
                    /\ variables[functions[sp].outputs[i]].data
                         = variables[x].data
                    /\ variables[functions[sp].outputs[i]].creator = sp)
  /\ [][last'.op = "call" =>
          LET xs == last'.args
              node == last'.node
          IN /\ \A x \in 1..Len(variables) :
                  LET old == BranchesOf(variables, functions, x)
                      new == BranchesOf(variables', functions', x)
                  IN /\ variables[x].splitter # Unset
                          => variables'[x].splitter = variables[x].splitter
                     /\ Len(new) = Len(old) + Occurrences(xs, x, Len(xs))
                     /\ \A i \in 1..Len(old) : new[i] = old[i]
                     /\ \A i \in Len(old) + 1..Len(new) :
                          new[i] > Len(variables)
             /\ Len(functions'[node].inputs) = Len(xs)
             /\ \A i \in 1..Len(xs) :
                  /\ functions'[node].inputs[i] # xs[i]
                  /\ functions'[node].inputs[i]
                       = BranchesOf(variables', functions', xs[i])
                           [Len(BranchesOf(variables, functions, xs[i]))
                              + Occurrences(xs, xs[i], i)]]_vars

\* C11 witness: a variable passed once to one invocation and twice to the
\* next holds a Split with three outputs.
BranchBookkeepingWitness ==
  /\ last.op = "call" /\ Len(last.args) = 2
  /\ last.args[1] = last.args[2]
  /\ Len(BranchesOf(variables, functions, last.args[1])) = 3
  /\ functions[last.node].inputs
       = SubSeq(BranchesOf(variables, functions, last.args[1]), 2, 3)


\* The gradients present among gys.
Present(gys) == {i \in 1..Len(gys) : gys[i] # None}

\* C12: when the pass runs the backward of a Split, no gradient array of
\* its branches changes; the array returned is one of the arrays received
\* only if the Split has a single branch, and then it is that branch's
\* gradient; with several branches and a gradient present the array
\* returned is a new one, holding the sum of the gradients present.
GradientAliasing ==
  [][\A f \in 1..Len(functions) :
       (Ran(f) /\ functions[f].kind = "Split") =>
         LET gys == Grads(Now, functions[f].outputs)
             gx == last'.ret[1]
         IN /\ \A i \in Present(gys) : arrays'[gys[i]] = arrays[gys[i]]
            /\ (gx # None /\ gx \in Range(gys)) => Len(gys) = 1
            /\ (Len(gys) = 1 /\ gys[1] # None) => gx = gys[1]
            /\ (Len(gys) >= 2 /\ Present(gys) # {}) =>
                 /\ gx > Len(arrays)
                 /\ Len(arrays') = Len(arrays) + 1
                 /\ arrays'[gx].val = SumPresent(arrays, gys)
                 /\ \A i \in 1..Len(arrays) : arrays'[i] = arrays[i]]_vars

\* C12 witness: a Split whose two branches both hold a gradient has run
\* and returned an array that is neither of them, and both still hold 1.
GradientAliasingWitness ==
  /\ last.op = "backward" /\ last.err = "ok"
  /\ functions[last.self].kind = "Split"
  /\ LET gys == Grads(Now, functions[last.self].outputs)
     IN /\ Len(gys) = 2 /\ Present(gys) = {1, 2}
        /\ last.ret[1] \notin Range(gys)
        /\ arrays[last.ret[1]].val = 2
        /\ \A i \in 1..2 : arrays[gys[i]].val = 1


\* The graph attributes of function object f.
GraphPart(fs, f) ==
  [inputs |-> fs[f].inputs, outputs |-> fs[f].outputs, rank |-> fs[f].rank]

\* C13: a parameterized instance the caller constructed never holds
\* inputs, outputs or a rank; each of its invocations runs on a new object
\* copied from it, which gets inputs, outputs and a rank of its own, and
\* changes the inputs, outputs and rank of no operation that existed; the
\* nodes of two invocations share no input and no output.
PerCallIsolation ==
  /\ [](\A f \in 1..Len(functions) :
          (functions[f].kind \in ParameterizedKinds
           /\ functions[f].origin = None)
            => GraphPart(functions, f)
                 = [inputs |-> NoneList, outputs |-> NoneList,
                    rank |-> NoRank])
  /\ [](\A n1, n2 \in CallNodes :
          (n1 # n2 /\ functions[n1].inputs # NoneList
           /\ functions[n2].inputs # NoneList)
            => /\ Range(functions[n1].inputs)
                    \cap Range(functions[n2].inputs) = {}
               /\ Range(functions[n1].outputs)
                    \cap Range(functions[n2].outputs) = {})
  /\ [][(last'.op = "call"
         /\ functions[last'.self].kind \in ParameterizedKinds)
        => /\ last'.node = Len(functions) + 1
           /\ Len(functions') >= last'.node
           /\ functions'[last'.node].kind = functions[last'.self].kind
           /\ functions'[last'.node].origin = last'.self
           /\ functions'[last'.node].inputs # NoneList
           /\ functions'[last'.node].outputs = last'.ret
           /\ functions'[last'.node].rank # NoRank
           /\ \A f \in 1..Len(functions) :
                functions[f].kind # "Split"
                  => GraphPart(functions', f) = GraphPart(functions, f)]_vars

\* C13 witness: a parameterized instance was invoked twice; it is as
\* constructed and its two call nodes hold different inputs and outputs.
PerCallIsolationWitness ==
  /\ last.op = "call" /\ last.err = "ok"
  /\ functions[last.self].kind \in ParameterizedKinds
  /\ Fresh(functions[last.self])
  /\ \E n \in CallNodes \ {last.node} :
       /\ functions[n].origin = last.self
       /\ functions[n].inputs # functions[last.node].inputs
       /\ functions[n].outputs # functions[last.node].outputs
       /\ functions[n].outputs # NoneList


\* The tuple a setter leaves: the values given at the leading positions
\* and what was there before at the others.
Zipped(before, values) ==
  [i \in 1..Len(before) |->
     IF i <= Len(values) THEN values[i] ELSE before[i]]

\* C14: parameters and gradients of a parameterized object read (W, b)
\* and (gW, gb) in every state; an assignment to either raises nothing,
\* puts the i-th value at the i-th declared name for as many positions as
\* names and values both have, and leaves the other names and the other
\* accessor as they were.
ZipAccessors ==
  /\ [](\A f \in 1..Len(functions) :
          functions[f].kind \in ParameterizedKinds =>
            /\ parameters(Now, f)
                 = <<functions[f].fields.W, functions[f].fields.b>>
            /\ gradients(Now, f)
                 = <<functions[f].fields.gW, functions[f].fields.gb>>)
  /\ [][\A f \in 1..Len(functions) :
          (/\ last'.op \in {"set_parameters", "set_gradients"}
           /\ last'.self = f
           /\ functions[f].kind \in ParameterizedKinds)
          => LET S1 == Heap(variables', functions', arrays')
             IN /\ last'.err = "ok"
                /\ last'.op = "set_parameters" =>
                     /\ parameters(S1, f)
                          = Zipped(parameters(Now, f), last'.args)
                     /\ gradients(S1, f) = gradients(Now, f)
                /\ last'.op = "set_gradients" =>
                     /\ gradients(S1, f)
                          = Zipped(gradients(Now, f), last'.args)
                     /\ parameters(S1, f) = parameters(Now, f)]_vars

\* C14 witness: a triple was assigned to the parameters of a call node,
\* which now reads the first two values in order.
ZipAccessorsWitness ==
  /\ last.op = "set_parameters" /\ last.err = "ok"
  /\ last.args = <<1, 2, 2>>
  /\ last.self \in CallNodes
  /\ parameters(Now, last.self) = <<1, 2>>


\* C15: an invocation whose forward returns wraps the raw values, in
\* order, in variables that did not exist, each holding one value as a new
\* array and the invoked node as creator; these are the node's outputs;
\* the call returns the one variable itself when there is exactly one and
\* the list of all of them (the empty list for none) otherwise.
ResultShape ==
  [][(last'.op = "call" /\ last'.err = "ok") =>
       LET node == last'.node
           S1 == Heap(variables', functions', arrays')
           fw == forward(S1, node, RawData(S1, functions'[node].inputs))
           ys == last'.ret
       IN /\ Len(ys) = Len(fw.outs)
          /\ functions'[node].outputs = ys
          /\ last'.single = (Len(fw.outs) = 1)
          /\ \A i \in 1..Len(ys) :
               /\ ys[i] > Len(variables)
               /\ variables'[ys[i]].data > Len(arrays)
               /\ arrays'[variables'[ys[i]].data] = fw.outs[i]
               /\ variables'[ys[i]].creator = node
          /\ \A i, j \in 1..Len(ys) :
               i # j => /\ ys[i] # ys[j]
                        /\ variables'[ys[i]].data # variables'[ys[j]].data]_vars

\* C15 witness: an operation with two outputs was invoked on the result
\* of another and returned the list of its two new variables.
ResultShapeWitness ==
  /\ last.op = "call" /\ last.err = "ok"
  /\ functions[last.node].kind = "Pair"
  /\ Len(last.ret) = 2 /\ ~last.single
  /\ variables[last.args[1]].creator # None
  /\ variables[last.ret[1]].creator = last.node
  /\ variables[last.ret[2]].creator = last.node


\* C16: in every state invocations and forgets reach, a variable whose
\* creator is f is among the outputs of f; and an invocation leaves every
\* variable that has a creator with that creator, among its outputs, and
\* leaves that creator's inputs as the invocation that made the variable
\* set them.
ProducerConsistency ==
  /\ [](\A y \in 1..Len(variables) :
          variables[y].creator # None =>
            /\ functions[variables[y].creator].outputs # NoneList
            /\ y \in Range(functions[variables[y].creator].outputs))
  /\ [][last'.op = "call" =>
          \A y \in 1..Len(variables) :
            variables[y].creator # None =>
              LET f == variables[y].creator
              IN /\ variables'[y].creator = f
                 /\ y \in Range(functions'[f].outputs)
                 /\ functions'[f].inputs = functions[f].inputs]_vars


\* C17: an invocation that is passed a variable whose splitter forget()
\* has set to None does not fail on it, and gives the variable a new Split
\* holding one output per position at which the variable is passed.
ReuseAfterForget ==
  [][last'.op = "call" =>
       \A i \in 1..Len(last'.args) :
         LET x == last'.args[i]
         IN variables[x].splitter = None =>
              /\ last'.err # "AttributeError"
              /\ variables'[x].splitter > Len(functions)
              /\ functions'[variables'[x].splitter].kind = "Split"
              /\ Len(functions'[variables'[x].splitter].outputs)
                   = Occurrences(last'.args, x, Len(last'.args))]_vars


\* C18: forget() on a node that holds no graph links (its inputs and
\* outputs are both None) ends without an error and changes no variable,
\* no function and no array.
ForgetIdempotent ==
  [][(/\ last'.op = "forget"
      /\ functions[last'.self].inputs = NoneList
      /\ functions[last'.self].outputs = NoneList)
       => /\ last'.err = "ok"
          /\ variables' = variables
          /\ functions' = functions
          /\ arrays' = arrays]_vars

====
